---- MODULE Spec2Model ----
(***************************************************************************)
(* Model of the Planck keymap of olkb_firmware/keymap.c and of the Vial    *)
(* configuration headers: the tap-dance callbacks, process_record_user,    *)
(* encoder_update, layer_state_set_user and the keymap tables.             *)
(*                                                                         *)
(* Keycodes are modelled by their names: two keycode expressions are the   *)
(* same keycode exactly when they are spelled the same in the source.      *)
(* The key actions a callback performs are a sequence of                   *)
(* <<"register" | "unregister" | "tap", keycode>>; `registered` is the set *)
(* of keycodes registered and not yet unregistered (a register of a        *)
(* keycode already in the set leaves the set as it is).                    *)
(***************************************************************************)
EXTENDS Integers, Sequences, FiniteSets, TLC

VARIABLES
    dance_state,   \* dance_state[n].step of keymap.c:100
    td,            \* the framework's tap_dance_state_t of each dance
    registered,    \* keycodes registered and not yet unregistered
    held,          \* per dance: keycode its finished callback left registered
    emitted,       \* per dance: keystrokes (tap or register) since its reset
    last,          \* the latest callback invocation: name, arguments, actions, result
    layer_state,   \* the framework's layer_state
    df,            \* DUAL_FUNC_0 key: is it down, was its latest press a tap, and
                   \* has every release so far carried the classification of its press
    muse_mode, muse_offset, muse_tempo,   \* keymap.c:384-388
    MOUSEKEY_ENABLE                        \* build option read by encoder_update

vars == <<dance_state, td, registered, held, emitted, last, layer_state, df,
          muse_mode, muse_offset, muse_tempo, MOUSEKEY_ENABLE>>

----------------------------------------------------------------------------
\* Bounds of the model

\* largest tap count the framework reaches in one tap-dance sequence
MaxCount == 4
\* largest number of dances that are being tapped or finished and not yet reset
MaxBusy == 2
\* largest record->tap.count passed to process_record_user
MaxTapCount == 2
\* number of layer bits of layer_state_t that are modelled
LayerBits == 6
\* largest count passed to dance_step when it is checked on its own
MaxStepCount == 30

----------------------------------------------------------------------------
\* enum tap_dance_codes, enum planck_layers, the gesture enum

DANCE_0 == 0
DANCE_1 == 1
DANCE_2 == 2
DANCE_3 == 3
DANCE_4 == 4
DANCE_5 == 5
DANCE_6 == 6

Dances == DANCE_0 .. DANCE_6

_BASE == 0
_LOWER == 1
_RAISE == 2
_ADJUST == 3

SINGLE_TAP == 1
SINGLE_HOLD == 2
DOUBLE_TAP == 3
DOUBLE_HOLD == 4
DOUBLE_SINGLE_TAP == 5
MORE_TAPS == 6

DUAL_FUNC_0 == "LT(5,KC_D)"

NONE == "NONE"

----------------------------------------------------------------------------
\* Key actions

register_code16(kc) == <<"register", kc>>
unregister_code16(kc) == <<"unregister", kc>>
tap_code16(kc) == <<"tap", kc>>

\* effect of one key action on the set of registered keycodes; a tap is a
\* register followed by an unregister of the keycode
ApplyAct(reg, act) ==
    IF act[1] = "register" THEN reg \cup {act[2]} ELSE reg \ {act[2]}

RECURSIVE ApplyActs(_, _)
ApplyActs(reg, acts) ==
    IF acts = <<>> THEN reg
    ELSE ApplyActs(ApplyAct(reg, Head(acts)), Tail(acts))

\* the keycode a sequence of key actions leaves registered (NONE if none)
RECURSIVE LeftRegistered(_)
LeftRegistered(acts) ==
    IF acts = <<>> THEN NONE
    ELSE LET a == acts[Len(acts)]
         IN IF a[1] = "register" THEN a[2]
            ELSE LET r == LeftRegistered(SubSeq(acts, 1, Len(acts) - 1))
                 IN IF r = a[2] THEN NONE ELSE r

\* the keystrokes (key-down events) of a sequence of key actions
RECURSIVE Keystrokes(_)
Keystrokes(acts) ==
    IF acts = <<>> THEN <<>>
    ELSE (IF Head(acts)[1] \in {"register", "tap"} THEN <<Head(acts)[2]>> ELSE <<>>)
         \o Keystrokes(Tail(acts))

----------------------------------------------------------------------------
\* dance_step

dance_step_swapped(count, interrupted, pressed) ==
    IF count = 1 THEN
        IF interrupted \/ ~pressed THEN SINGLE_TAP ELSE SINGLE_HOLD
    ELSE IF count = 2 THEN
        IF pressed THEN DOUBLE_HOLD
        ELSE IF interrupted THEN DOUBLE_SINGLE_TAP
        ELSE DOUBLE_TAP
    ELSE MORE_TAPS

dance_step(count, interrupted, pressed) ==
    IF count = 1 THEN
        IF interrupted \/ ~pressed THEN SINGLE_TAP ELSE SINGLE_HOLD
    ELSE IF count = 2 THEN
        IF interrupted THEN DOUBLE_SINGLE_TAP
        ELSE IF pressed THEN DOUBLE_HOLD
        ELSE DOUBLE_TAP
    ELSE MORE_TAPS

----------------------------------------------------------------------------
\* The tap-dance callbacks: the key actions each performs

\* on_dance_N(count): three taps at the third tap, one at each later tap
on_dance_0_from_three(count) ==
    (IF count = 3 THEN <<tap_code16("KC_DELETE"), tap_code16("KC_DELETE"),
                         tap_code16("KC_DELETE")>> ELSE <<>>)
    \o (IF count >= 3 THEN <<tap_code16("KC_DELETE")>> ELSE <<>>)

on_dance_0(count) ==
    (IF count = 3 THEN <<tap_code16("KC_DELETE"), tap_code16("KC_DELETE"),
                         tap_code16("KC_DELETE")>> ELSE <<>>)
    \o (IF count > 3 THEN <<tap_code16("KC_DELETE")>> ELSE <<>>)

dance_0_finished(step) ==
    CASE step = SINGLE_TAP -> <<register_code16("KC_DELETE")>>
      [] step = DOUBLE_TAP -> <<register_code16("LCTL(KC_DELETE)")>>
      [] step = DOUBLE_SINGLE_TAP ->
            <<tap_code16("KC_DELETE"), register_code16("KC_DELETE")>>
      [] OTHER -> <<>>

dance_0_reset(step) ==
    CASE step = SINGLE_TAP -> <<unregister_code16("KC_DELETE")>>
      [] step = DOUBLE_TAP -> <<unregister_code16("LCTL(KC_DELETE)")>>
      [] step = DOUBLE_SINGLE_TAP -> <<unregister_code16("KC_DELETE")>>
      [] OTHER -> <<>>

on_dance_1(count) ==
    (IF count = 3 THEN <<tap_code16("KC_LBRC"), tap_code16("KC_LBRC"),
                         tap_code16("KC_LBRC")>> ELSE <<>>)
    \o (IF count > 3 THEN <<tap_code16("KC_LBRC")>> ELSE <<>>)

dance_1_finished_plain_double(step) ==
    CASE step = SINGLE_TAP -> <<register_code16("KC_LBRC")>>
      [] step = SINGLE_HOLD -> <<register_code16("KC_RIGHT_GUI")>>
      [] step = DOUBLE_TAP -> <<register_code16("KC_LBRC")>>
      [] step = DOUBLE_SINGLE_TAP ->
            <<tap_code16("KC_LBRC"), register_code16("KC_LBRC")>>
      [] OTHER -> <<>>

dance_1_finished(step) ==
    CASE step = SINGLE_TAP -> <<register_code16("KC_LBRC")>>
      [] step = SINGLE_HOLD -> <<register_code16("KC_RIGHT_GUI")>>
      [] step = DOUBLE_TAP -> <<register_code16("LSFT(KC_LBRC)")>>
      [] step = DOUBLE_SINGLE_TAP ->
            <<tap_code16("KC_LBRC"), register_code16("KC_LBRC")>>
      [] OTHER -> <<>>

dance_1_reset(step) ==
    CASE step = SINGLE_TAP -> <<unregister_code16("KC_LBRC")>>
      [] step = SINGLE_HOLD -> <<unregister_code16("KC_RIGHT_GUI")>>
      [] step = DOUBLE_TAP -> <<unregister_code16("LSFT(KC_LBRC)")>>
      [] step = DOUBLE_SINGLE_TAP -> <<unregister_code16("KC_LBRC")>>
      [] OTHER -> <<>>

on_dance_2(count) ==
    (IF count = 3 THEN <<tap_code16("KC_RBRC"), tap_code16("KC_RBRC"),
                         tap_code16("KC_RBRC")>> ELSE <<>>)
    \o (IF count > 3 THEN <<tap_code16("KC_RBRC")>> ELSE <<>>)

dance_2_finished(step) ==
    CASE step = SINGLE_TAP -> <<register_code16("KC_RBRC")>>
      [] step = SINGLE_HOLD -> <<register_code16("KC_RIGHT_ALT")>>
      [] step = DOUBLE_TAP -> <<register_code16("LSFT(KC_RBRC)")>>
      [] step = DOUBLE_SINGLE_TAP ->
            <<tap_code16("KC_RBRC"), register_code16("KC_RBRC")>>
      [] OTHER -> <<>>

dance_2_reset_no_hold(step) ==
    CASE step = SINGLE_TAP -> <<unregister_code16("KC_RBRC")>>
      [] step = DOUBLE_TAP -> <<unregister_code16("LSFT(KC_RBRC)")>>
      [] step = DOUBLE_SINGLE_TAP -> <<unregister_code16("KC_RBRC")>>
      [] OTHER -> <<>>

dance_2_reset(step) ==
    CASE step = SINGLE_TAP -> <<unregister_code16("KC_RBRC")>>
      [] step = SINGLE_HOLD -> <<unregister_code16("KC_RIGHT_ALT")>>
      [] step = DOUBLE_TAP -> <<unregister_code16("LSFT(KC_RBRC)")>>
      [] step = DOUBLE_SINGLE_TAP -> <<unregister_code16("KC_RBRC")>>
      [] OTHER -> <<>>

dance_3_finished(step) ==
    CASE step = SINGLE_HOLD -> <<register_code16("KC_LEFT_CTRL")>>
      [] step = DOUBLE_TAP -> <<register_code16("KC_CAPS")>>
      [] OTHER -> <<>>

dance_3_reset(step) ==
    CASE step = SINGLE_HOLD -> <<unregister_code16("KC_LEFT_CTRL")>>
      [] step = DOUBLE_TAP -> <<unregister_code16("KC_CAPS")>>
      [] OTHER -> <<>>

on_dance_4(count) ==
    (IF count = 3 THEN <<tap_code16("KC_SPACE"), tap_code16("KC_SPACE"),
                         tap_code16("KC_SPACE")>> ELSE <<>>)
    \o (IF count > 3 THEN <<tap_code16("KC_SPACE")>> ELSE <<>>)

dance_4_finished(step) ==
    CASE step = SINGLE_TAP -> <<register_code16("KC_SPACE")>>
      [] step = SINGLE_HOLD -> <<register_code16("KC_ENTER")>>
      [] step = DOUBLE_TAP ->
            <<register_code16("KC_SPACE"), register_code16("KC_SPACE")>>
      [] step = DOUBLE_HOLD -> <<register_code16("LSFT(KC_ENTER)")>>
      [] step = DOUBLE_SINGLE_TAP ->
            <<tap_code16("KC_SPACE"), register_code16("KC_SPACE")>>
      [] OTHER -> <<>>

dance_4_reset(step) ==
    CASE step = SINGLE_TAP -> <<unregister_code16("KC_SPACE")>>
      [] step = SINGLE_HOLD -> <<unregister_code16("KC_ENTER")>>
      [] step = DOUBLE_TAP -> <<unregister_code16("KC_SPACE")>>
      [] step = DOUBLE_HOLD -> <<unregister_code16("LSFT(KC_ENTER)")>>
      [] step = DOUBLE_SINGLE_TAP -> <<unregister_code16("KC_SPACE")>>
      [] OTHER -> <<>>

on_dance_5(count) ==
    (IF count = 3 THEN <<tap_code16("KC_BSPC"), tap_code16("KC_BSPC"),
                         tap_code16("KC_BSPC")>> ELSE <<>>)
    \o (IF count > 3 THEN <<tap_code16("KC_BSPC")>> ELSE <<>>)

dance_5_finished(step) ==
    CASE step = SINGLE_TAP -> <<register_code16("KC_BSPC")>>
      [] step = SINGLE_HOLD -> <<register_code16("KC_RIGHT_SHIFT")>>
      [] step = DOUBLE_TAP -> <<register_code16("RCTL(KC_BSPC)")>>
      [] step = DOUBLE_HOLD -> <<register_code16("KC_BSPC")>>
      [] step = DOUBLE_SINGLE_TAP ->
            <<tap_code16("KC_BSPC"), register_code16("KC_BSPC")>>
      [] OTHER -> <<>>

dance_5_reset(step) ==
    CASE step = SINGLE_TAP -> <<unregister_code16("KC_BSPC")>>
      [] step = SINGLE_HOLD -> <<unregister_code16("KC_RIGHT_SHIFT")>>
      [] step = DOUBLE_TAP -> <<unregister_code16("RCTL(KC_BSPC)")>>
      [] step = DOUBLE_HOLD -> <<unregister_code16("KC_BSPC")>>
      [] step = DOUBLE_SINGLE_TAP -> <<unregister_code16("KC_BSPC")>>
      [] OTHER -> <<>>

on_dance_6(count) ==
    (IF count = 3 THEN <<tap_code16("KC_DELETE"), tap_code16("KC_DELETE"),
                         tap_code16("KC_DELETE")>> ELSE <<>>)
    \o (IF count > 3 THEN <<tap_code16("KC_DELETE")>> ELSE <<>>)

dance_6_finished(step) ==
    CASE step = SINGLE_TAP -> <<register_code16("KC_DELETE")>>
      [] step = SINGLE_HOLD -> <<register_code16("KC_RIGHT_CTRL")>>
      [] step = DOUBLE_TAP -> <<register_code16("RCTL(KC_DELETE)")>>
      [] step = DOUBLE_HOLD -> <<register_code16("KC_DELETE")>>
      [] step = DOUBLE_SINGLE_TAP ->
            <<tap_code16("KC_DELETE"), register_code16("KC_DELETE")>>
      [] OTHER -> <<>>

dance_6_reset_stale_hold(step) ==
    CASE step = SINGLE_TAP -> <<unregister_code16("KC_DELETE")>>
      [] step = SINGLE_HOLD -> <<unregister_code16("KC_RIGHT_CTRL")>>
      [] step = DOUBLE_TAP -> <<unregister_code16("RCTL(KC_DELETE)")>>
      [] step = DOUBLE_HOLD -> <<unregister_code16("RCTL(KC_DELETE)")>>
      [] step = DOUBLE_SINGLE_TAP -> <<unregister_code16("KC_DELETE")>>
      [] OTHER -> <<>>

dance_6_reset(step) ==
    CASE step = SINGLE_TAP -> <<unregister_code16("KC_DELETE")>>
      [] step = SINGLE_HOLD -> <<unregister_code16("KC_RIGHT_CTRL")>>
      [] step = DOUBLE_TAP -> <<unregister_code16("RCTL(KC_DELETE)")>>
      [] step = DOUBLE_HOLD -> <<unregister_code16("KC_DELETE")>>
      [] step = DOUBLE_SINGLE_TAP -> <<unregister_code16("KC_DELETE")>>
      [] OTHER -> <<>>

\* tap_dance_actions[]: the three callbacks of each dance (DANCE_3 has no
\* on-each-tap callback)
tap_dance_on_each_tap(n, count) ==
    CASE n = DANCE_0 -> on_dance_0(count)
      [] n = DANCE_1 -> on_dance_1(count)
      [] n = DANCE_2 -> on_dance_2(count)
      [] n = DANCE_3 -> <<>>
      [] n = DANCE_4 -> on_dance_4(count)
      [] n = DANCE_5 -> on_dance_5(count)
      [] n = DANCE_6 -> on_dance_6(count)

tap_dance_on_finished(n, step) ==
    CASE n = DANCE_0 -> dance_0_finished(step)
      [] n = DANCE_1 -> dance_1_finished(step)
      [] n = DANCE_2 -> dance_2_finished(step)
      [] n = DANCE_3 -> dance_3_finished(step)
      [] n = DANCE_4 -> dance_4_finished(step)
      [] n = DANCE_5 -> dance_5_finished(step)
      [] n = DANCE_6 -> dance_6_finished(step)

tap_dance_on_reset(n, step) ==
    CASE n = DANCE_0 -> dance_0_reset(step)
      [] n = DANCE_1 -> dance_1_reset(step)
      [] n = DANCE_2 -> dance_2_reset(step)
      [] n = DANCE_3 -> dance_3_reset(step)
      [] n = DANCE_4 -> dance_4_reset(step)
      [] n = DANCE_5 -> dance_5_reset(step)
      [] n = DANCE_6 -> dance_6_reset(step)

\* dances that have an on-each-tap callback
HasOnEachTap == Dances \ {DANCE_3}

----------------------------------------------------------------------------
\* The keymap tables and the Vial unlock combination

MATRIX_ROWS == 8
MATRIX_COLS == 6

keymaps == <<
  \* _BASE
  << <<"KC_TAB", "KC_Q", "KC_W", "KC_E", "KC_R", "KC_T">>,
     <<"TD(DANCE_0)", "KC_A", "KC_S", "KC_D", "KC_F", "KC_G">>,
     <<DUAL_FUNC_0, "KC_Z", "KC_X", "KC_C", "KC_V", "KC_B">>,
     <<"LSFT(KC_LEFT_ALT)", "KC_TRANSPARENT", "KC_LEFT_GUI", "TD(DANCE_3)",
       "MT(MOD_LSFT,KC_BSLS)", "TD(DANCE_4)">>,
     <<"KC_Y", "KC_U", "KC_I", "KC_O", "KC_P", "KC_ESCAPE">>,
     <<"KC_H", "KC_J", "KC_K", "KC_L", "KC_SCLN", "TT(1)">>,
     <<"KC_N", "KC_M", "KC_COMMA", "KC_DOT", "TD(DANCE_1)", "TD(DANCE_2)">>,
     <<"KC_NO", "TD(DANCE_5)", "TD(DANCE_6)", "MT(MOD_RSFT,KC_QUOTE)",
       "MT(MOD_RCTL,KC_SLASH)", "KC_EQUAL">> >>,
  \* _LOWER
  << <<"KC_TILD", "KC_1", "KC_2", "KC_3", "KC_4", "KC_5">>,
     <<"KC_DELETE", "KC_HOME", "KC_UP", "KC_END", "KC_PAGE_UP", "KC_KP_ASTERISK">>,
     <<"KC_BSPC", "KC_LEFT", "KC_DOWN", "KC_RIGHT", "KC_PGDN", "KC_KP_SLASH">>,
     <<"KC_TRANSPARENT", "KC_TRANSPARENT", "KC_TRANSPARENT", "KC_BSLS",
       "KC_LEFT_SHIFT", "KC_TRANSPARENT">>,
     <<"KC_6", "KC_7", "KC_8", "KC_9", "KC_0", "KC_TRANSPARENT">>,
     <<"KC_KP_PLUS", "KC_KP_4", "KC_KP_5", "KC_KP_6", "KC_KP_EQUAL", "KC_TRANSPARENT">>,
     <<"KC_KP_MINUS", "KC_KP_1", "KC_KP_2", "KC_KP_3", "KC_TRANSPARENT",
       "KC_TRANSPARENT">>,
     <<"KC_NO", "KC_KP_COMMA", "KC_KP_0", "KC_KP_DOT", "KC_MINUS", "KC_EQUAL">> >>,
  \* _RAISE
  << <<"KC_TRANSPARENT", "KC_F1", "KC_F2", "KC_F3", "KC_F4", "KC_F5">>,
     <<"KC_TRANSPARENT", "KC_F7", "KC_F8", "KC_F9", "KC_F10", "KC_F11">>,
     <<"KC_TRANSPARENT", "KC_TRANSPARENT", "KC_TRANSPARENT", "KC_TRANSPARENT",
       "KC_TRANSPARENT", "KC_TRANSPARENT">>,
     <<"KC_TRANSPARENT", "KC_TRANSPARENT", "KC_TRANSPARENT", "KC_TRANSPARENT",
       "KC_TRANSPARENT", "KC_TRANSPARENT">>,
     <<"KC_F6", "KC_TRANSPARENT", "KC_TRANSPARENT", "KC_TRANSPARENT",
       "KC_TRANSPARENT", "KC_TRANSPARENT">>,
     <<"KC_F12", "KC_TRANSPARENT", "KC_TRANSPARENT", "KC_TRANSPARENT",
       "KC_TRANSPARENT", "KC_TRANSPARENT">>,
     <<"KC_TRANSPARENT", "KC_TRANSPARENT", "KC_TRANSPARENT", "KC_TRANSPARENT",
       "KC_TRANSPARENT", "KC_TRANSPARENT">>,
     <<"KC_NO", "KC_TRANSPARENT", "KC_TRANSPARENT", "KC_TRANSPARENT",
       "KC_TRANSPARENT", "KC_TRANSPARENT">> >>,
  \* _ADJUST
  << <<"KC_TRANSPARENT", "KC_TRANSPARENT", "KC_TRANSPARENT", "KC_TRANSPARENT",
       "KC_TRANSPARENT", "KC_TRANSPARENT">>,
     <<"KC_DELETE", "KC_TRANSPARENT", "QK_AUDIO_ON", "QK_AUDIO_OFF", "AU_TOGG",
       "KC_TRANSPARENT">>,
     <<"KC_TRANSPARENT", "KC_TRANSPARENT", "QK_MUSIC_ON", "QK_MUSIC_OFF", "MU_TOGG",
       "KC_TRANSPARENT">>,
     <<"KC_TRANSPARENT", "KC_TRANSPARENT", "KC_TRANSPARENT", "KC_TRANSPARENT",
       "KC_TRANSPARENT", "KC_TRANSPARENT">>,
     <<"KC_TRANSPARENT", "KC_TRANSPARENT", "KC_TRANSPARENT", "KC_TRANSPARENT",
       "KC_TRANSPARENT", "KC_TRANSPARENT">>,
     <<"KC_TRANSPARENT", "KC_TRANSPARENT", "KC_TRANSPARENT", "KC_TRANSPARENT",
       "KC_TRANSPARENT", "QK_BOOT">>,
     <<"KC_TRANSPARENT", "KC_TRANSPARENT", "KC_TRANSPARENT", "KC_TRANSPARENT",
       "KC_TRANSPARENT", "KC_TRANSPARENT">>,
     <<"KC_NO", "KC_TRANSPARENT", "KC_TRANSPARENT", "KC_TRANSPARENT",
       "KC_TRANSPARENT", "KC_TRANSPARENT">> >>
>>

Layers == _BASE .. _ADJUST

\* keymaps[layer][row][col], indices from 0 as in the source
keymap_key(layer, row, col) == keymaps[layer + 1][row + 1][col + 1]

\* olkb_firmware/config.h
VIAL_UNLOCK_COMBO_ROWS == <<0, 4>>
VIAL_UNLOCK_COMBO_COLS == <<0, 5>>

\* olkb_firmware_vial/config.h
vial_VIAL_UNLOCK_COMBO_ROWS == <<0, 4>>
vial_VIAL_UNLOCK_COMBO_COLS == <<0, 5>>

----------------------------------------------------------------------------
\* process_record_user: its key actions and its return value

register_code(kc) == <<"register", kc>>
unregister_code(kc) == <<"unregister", kc>>

process_record_user_plain_release(keycode, pressed, tap_count) ==
    IF keycode = DUAL_FUNC_0 THEN
        [acts |-> IF tap_count > 0
                  THEN IF pressed THEN <<register_code16("KC_BSPC")>>
                       ELSE <<unregister_code16("KC_BSPC")>>
                  ELSE IF pressed THEN <<register_code16("LCTL(KC_BSPC)")>>
                       ELSE <<unregister_code16("KC_BSPC")>>,
         ret |-> FALSE]
    ELSE [acts |-> <<>>, ret |-> TRUE]

process_record_user_any_dual(keycode, pressed, tap_count) ==
    IF keycode \in {DUAL_FUNC_0, "KC_D"} THEN
        [acts |-> IF tap_count > 0
                  THEN IF pressed THEN <<register_code16("KC_BSPC")>>
                       ELSE <<unregister_code16("KC_BSPC")>>
                  ELSE IF pressed THEN <<register_code16("LCTL(KC_BSPC)")>>
                       ELSE <<unregister_code16("LCTL(KC_BSPC)")>>,
         ret |-> FALSE]
    ELSE [acts |-> <<>>, ret |-> TRUE]

process_record_user(keycode, pressed, tap_count) ==
    IF keycode = DUAL_FUNC_0 THEN
        [acts |-> IF tap_count > 0
                  THEN IF pressed THEN <<register_code16("KC_BSPC")>>
                       ELSE <<unregister_code16("KC_BSPC")>>
                  ELSE IF pressed THEN <<register_code16("LCTL(KC_BSPC)")>>
                       ELSE <<unregister_code16("LCTL(KC_BSPC)")>>,
         ret |-> FALSE]
    ELSE [acts |-> <<>>, ret |-> TRUE]

----------------------------------------------------------------------------
\* Layer state: a bit mask of LayerBits bits

Bit(state, i) == (state \div 2^i) % 2 = 1

RECURSIVE MaskOf(_, _)
\* the mask of the bits i < width that satisfy on[i]
MaskOf(on, width) ==
    IF width = 0 THEN 0
    ELSE MaskOf(on, width - 1) + (IF on[width - 1] THEN 2^(width - 1) ELSE 0)

BitAnd(a, b) == MaskOf([i \in 0..(LayerBits - 1) |-> Bit(a, i) /\ Bit(b, i)], LayerBits)
BitOr(a, b) == MaskOf([i \in 0..(LayerBits - 1) |-> Bit(a, i) \/ Bit(b, i)], LayerBits)
BitNot(a) == MaskOf([i \in 0..(LayerBits - 1) |-> ~Bit(a, i)], LayerBits)

\* the framework's tri-layer rule: layer3 is on exactly when layer1 and
\* layer2 are both on
update_tri_layer_state(state, layer1, layer2, layer3) ==
    LET mask12 == BitOr(2^layer1, 2^layer2)
        mask3 == 2^layer3
    IN IF BitAnd(state, mask12) = mask12 THEN BitOr(state, mask3)
       ELSE BitAnd(state, BitNot(mask3))

layer_state_set_user_misordered(state) ==
    update_tri_layer_state(state, _LOWER, _ADJUST, _RAISE)

layer_state_set_user(state) ==
    update_tri_layer_state(state, _LOWER, _RAISE, _ADJUST)

IS_LAYER_ON(layer) == Bit(layer_state, layer)

----------------------------------------------------------------------------
\* encoder_update: its key actions and the new muse_offset and muse_tempo

encoder_update_held(clockwise) ==
    IF muse_mode THEN
        [acts |-> <<>>,
         muse_offset |-> IF IS_LAYER_ON(_RAISE)
                         THEN (IF clockwise THEN (muse_offset + 1) % 256
                               ELSE (muse_offset + 255) % 256)
                         ELSE muse_offset,
         muse_tempo |-> IF IS_LAYER_ON(_RAISE) THEN muse_tempo
                        ELSE (IF clockwise THEN (muse_tempo + 1) % 65536
                              ELSE (muse_tempo + 65535) % 65536)]
    ELSE
        [acts |-> IF clockwise
                  THEN IF MOUSEKEY_ENABLE
                       THEN <<register_code("KC_MS_WH_DOWN")>>
                       ELSE <<register_code("KC_PGDN")>>
                  ELSE IF MOUSEKEY_ENABLE
                       THEN <<register_code("KC_MS_WH_UP"), unregister_code("KC_MS_WH_UP")>>
                       ELSE <<register_code("KC_PGUP"), unregister_code("KC_PGUP")>>,
         muse_offset |-> muse_offset,
         muse_tempo |-> muse_tempo]

encoder_update(clockwise) ==
    IF muse_mode THEN
        [acts |-> <<>>,
         muse_offset |-> IF IS_LAYER_ON(_RAISE)
                         THEN (IF clockwise THEN (muse_offset + 1) % 256
                               ELSE (muse_offset + 255) % 256)
                         ELSE muse_offset,
         muse_tempo |-> IF IS_LAYER_ON(_RAISE) THEN muse_tempo
                        ELSE (IF clockwise THEN (muse_tempo + 1) % 65536
                              ELSE (muse_tempo + 65535) % 65536)]
    ELSE
        [acts |-> IF clockwise
                  THEN IF MOUSEKEY_ENABLE
                       THEN <<register_code("KC_MS_WH_DOWN"),
                              unregister_code("KC_MS_WH_DOWN")>>
                       ELSE <<register_code("KC_PGDN"), unregister_code("KC_PGDN")>>
                  ELSE IF MOUSEKEY_ENABLE
                       THEN <<register_code("KC_MS_WH_UP"), unregister_code("KC_MS_WH_UP")>>
                       ELSE <<register_code("KC_PGUP"), unregister_code("KC_PGUP")>>,
         muse_offset |-> muse_offset,
         muse_tempo |-> muse_tempo]

----------------------------------------------------------------------------
\* Initial state

NoCall == [cb |-> "none", args |-> <<>>, acts |-> <<>>, ret |-> 0]

Init ==
    /\ dance_state = [n \in Dances |-> [is_press_action |-> FALSE, step |-> 0]]
    /\ td = [n \in Dances |-> [count |-> 0, finished |-> FALSE]]
    /\ registered = {}
    /\ held = [n \in Dances |-> NONE]
    /\ emitted = [n \in Dances |-> <<>>]
    /\ last = NoCall
    /\ layer_state = 0
    /\ df = [down |-> FALSE, tap |-> FALSE, clean |-> TRUE]
    /\ muse_mode = FALSE
    /\ muse_offset = 70
    /\ muse_tempo = 50
    /\ MOUSEKEY_ENABLE \in BOOLEAN

----------------------------------------------------------------------------
\* Tap-dance actions.  The framework taps a dance (on-each-tap with count
\* 1, 2, ...), calls its finished callback once, and then its reset callback,
\* which ends the sequence; the sequences of different dances interleave.
\* A reset may also come with no sequence under way.

KeysUnchanged == UNCHANGED <<last, layer_state, df, muse_mode, muse_offset,
                             muse_tempo, MOUSEKEY_ENABLE>>

Busy == {m \in Dances : td[m].count > 0 \/ td[m].finished}

\* dance_state[n].step = step, the first statement of dance_N_finished
step_stored(n, step) == [dance_state EXCEPT ![n].step = step]

step_cleared_next(n) == [dance_state EXCEPT ![(n + 1) % 7].step = 0]

\* dance_state[n].step = 0, the last statement of dance_N_reset
step_cleared(n) == [dance_state EXCEPT ![n].step = 0]

on_dance(n) ==
    /\ ~td[n].finished
    /\ td[n].count < MaxCount
    /\ n \in Busy \/ Cardinality(Busy) < MaxBusy
    /\ LET count == td[n].count + 1
           acts == tap_dance_on_each_tap(n, count)
       IN /\ td' = [td EXCEPT ![n].count = count]
          /\ registered' = ApplyActs(registered, acts)
          /\ emitted' = [emitted EXCEPT ![n] = @ \o Keystrokes(acts)]
    /\ UNCHANGED <<dance_state, held>>
    /\ KeysUnchanged

dance_finished(n) ==
    \E interrupted \in BOOLEAN, pressed \in BOOLEAN :
        /\ ~td[n].finished
        /\ td[n].count >= 1
        /\ LET step == dance_step(td[n].count, interrupted, pressed)
               acts == tap_dance_on_finished(n, step)
           IN /\ dance_state' = step_stored(n, step)
              /\ registered' = ApplyActs(registered, acts)
              /\ held' = [held EXCEPT ![n] = LeftRegistered(acts)]
              /\ emitted' = [emitted EXCEPT ![n] = @ \o Keystrokes(acts)]
        /\ td' = [td EXCEPT ![n].finished = TRUE]
        /\ KeysUnchanged

dance_reset(n) ==
    /\ td[n].finished \/ td[n].count = 0
    /\ LET acts == tap_dance_on_reset(n, dance_state[n].step)
       IN registered' = ApplyActs(registered, acts)
    /\ dance_state' = step_cleared(n)
    /\ td' = [td EXCEPT ![n] = [count |-> 0, finished |-> FALSE]]
    /\ held' = [held EXCEPT ![n] = NONE]
    /\ emitted' = [emitted EXCEPT ![n] = <<>>]
    /\ KeysUnchanged

Next ==
    \E n \in Dances :
        \/ on_dance(n)
        \/ dance_finished(n)
        \/ dance_reset(n)

Spec == Init /\ [][Next]_vars

----------------------------------------------------------------------------
\* Properties of the tap dances (checked under Spec)

FourSteps == {SINGLE_TAP, SINGLE_HOLD, DOUBLE_TAP, DOUBLE_HOLD}

\* the keycode dance n's finished callback leaves registered for a step
RegisteredFor(n, step) == LeftRegistered(tap_dance_on_finished(n, step))

Repeat(k, kc) == [i \in 1..k |-> kc]

\* C1 as stated: every dance registers a keycode for each of SINGLE_TAP,
\* SINGLE_HOLD, DOUBLE_TAP and DOUBLE_HOLD, and the keycode registered for
\* one of these steps differs from the keycodes of the other three.
C1_AllFourDistinct ==
    \A n \in Dances :
        (td[n].finished /\ dance_state[n].step \in FourSteps) =>
            /\ held[n] # NONE
            /\ \A s \in FourSteps \ {dance_state[n].step} :
                   RegisteredFor(n, s) # held[n]

\* the (dance, step) pairs for which the finished callback registers nothing
C1_NoKeycode ==
    {<<DANCE_0, SINGLE_HOLD>>, <<DANCE_0, DOUBLE_HOLD>>, <<DANCE_1, DOUBLE_HOLD>>,
     <<DANCE_2, DOUBLE_HOLD>>, <<DANCE_3, SINGLE_TAP>>, <<DANCE_3, DOUBLE_HOLD>>}

\* the (dance, two steps) for which the finished callback registers one keycode
C1_SameKeycode ==
    {<<DANCE_4, {SINGLE_TAP, DOUBLE_TAP}>>, <<DANCE_5, {SINGLE_TAP, DOUBLE_HOLD}>>,
     <<DANCE_6, {SINGLE_TAP, DOUBLE_HOLD}>>}

\* C1 amended: dance_N_finished registers a keycode for each of the four
\* steps except the six pairs of C1_NoKeycode, and the keycodes a dance
\* registers for two of the four steps differ except for the three pairs of
\* C1_SameKeycode, where they are the same keycode.
C1_GestureKeycodes ==
    \A n \in Dances :
        (td[n].finished /\ dance_state[n].step \in FourSteps) =>
            LET step == dance_state[n].step
            IN /\ (held[n] = NONE) <=> (<<n, step>> \in C1_NoKeycode)
               /\ \A s \in FourSteps \ {step} :
                      held[n] # NONE =>
                          ((RegisteredFor(n, s) = held[n])
                               <=> (<<n, {step, s}>> \in C1_SameKeycode))

\* dance 5 has finished a double hold and holds the keycode of its single tap
C1_Witness ==
    /\ td[DANCE_5].finished
    /\ dance_state[DANCE_5].step = DOUBLE_HOLD
    /\ held[DANCE_5] = "KC_BSPC"
    /\ RegisteredFor(DANCE_5, SINGLE_TAP) = "KC_BSPC"

\* C3: while dance N (N # 3) is tapped k times, its on-each-tap callbacks
\* have issued k taps of its single-tap keycode if k >= 3 and none if k < 3;
\* a finished callback that follows k >= 3 taps registers nothing, so the
\* sequence has emitted exactly k keystrokes.
C3_RapidTaps ==
    \A n \in HasOnEachTap :
        LET k == td[n].count
            kc == RegisteredFor(n, SINGLE_TAP)
        IN /\ ~td[n].finished =>
                  emitted[n] = (IF k >= 3 THEN Repeat(k, kc) ELSE <<>>)
           /\ (td[n].finished /\ k >= 3) =>
                  /\ held[n] = NONE
                  /\ dance_state[n].step = MORE_TAPS
                  /\ emitted[n] = Repeat(k, kc)

\* dance 0 was tapped MaxCount times and has finished
C3_Witness ==
    /\ td[DANCE_0].finished
    /\ td[DANCE_0].count = MaxCount
    /\ emitted[DANCE_0] = Repeat(MaxCount, "KC_DELETE")

\* the key actions dance n's reset callback performs when it is invoked now
ResetActs(n) == tap_dance_on_reset(n, dance_state[n].step)

HeldKeys == {held[n] : n \in Dances} \ {NONE}

\* reset unregisters exactly what finished left registered; nothing is
\* registered that no finished dance holds
C7_Releases ==
    /\ registered \subseteq HeldKeys
    /\ \A n \in Dances :
           ResetActs(n) = (IF held[n] = NONE THEN <<>>
                           ELSE <<unregister_code16(held[n])>>)

\* C7 as stated: finished followed by reset leaves nothing registered, reset
\* unregisters exactly the keycode finished registered, and between the two
\* calls that keycode stays registered, along every interleaving of the
\* finished/reset pairs of different dances (no dance is in a third or later
\* tap, whose on-each-tap callback taps a keycode).
C7_HeldUntilReset ==
    /\ C7_Releases
    /\ (\A m \in Dances : td[m].count < 3) =>
           \A n \in Dances : held[n] # NONE => held[n] \in registered

\* C7 amended: as stated, except that between the two calls the keycode
\* stays registered for every keycode but KC_DELETE held by dance 0 or 6,
\* which a callback of the other of the two may release in between.
C7_NoStuckKey ==
    /\ C7_Releases
    /\ \A n \in Dances :
           (held[n] # NONE /\ held[n] \notin registered) =>
               (n \in {DANCE_0, DANCE_6} /\ held[n] = "KC_DELETE")

\* dance 4 holds KC_SPACE after a double tap while dance 6 holds a
\* KC_DELETE that a callback of dance 0 has released
C7_Witness ==
    /\ dance_state[DANCE_4].step = DOUBLE_TAP
    /\ held[DANCE_4] = "KC_SPACE"
    /\ "KC_SPACE" \in registered
    /\ held[DANCE_6] = "KC_DELETE"
    /\ "KC_DELETE" \notin registered

\* C9 as stated: the key actions of a callback are determined by its
\* arguments alone.  dance_N_reset reads none of its arguments, so the
\* actions it performs when invoked are the same in every state, those it
\* performs before any other callback has run.
C9_ArgumentsAlone ==
    \A n \in Dances : ResetActs(n) = tap_dance_on_reset(n, 0)

\* C9 amended: the key actions of dance_N_reset are determined by
\* dance_state[N].step, which is 0 unless dance_N_finished has run since the
\* last reset and is then the step that call stored: reset performs the
\* unregister of the keycode finished registers for that step, and nothing
\* when that step registers none or no finished call is outstanding.
C9_ResetFollowsStep ==
    \A n \in Dances :
        /\ (dance_state[n].step # 0) <=> td[n].finished
        /\ ResetActs(n) =
               (IF td[n].finished /\ RegisteredFor(n, dance_state[n].step) # NONE
                THEN <<unregister_code16(RegisteredFor(n, dance_state[n].step))>>
                ELSE <<>>)

\* dance 1 has finished a single hold; its reset would now unregister the
\* keycode of that step, and would do nothing for dance 2, which is idle
C9_Witness ==
    /\ td[DANCE_1].finished
    /\ dance_state[DANCE_1].step = SINGLE_HOLD
    /\ ResetActs(DANCE_1) = <<unregister_code16("KC_RIGHT_GUI")>>
    /\ ResetActs(DANCE_2) = <<>>

\* every step is in 0..6, and a dance with no finished call outstanding has
\* step 0, so that its reset unregisters nothing
C11_StepCleared ==
    \A n \in Dances :
        /\ dance_state[n].step \in 0..6
        /\ ~td[n].finished => (dance_state[n].step = 0 /\ ResetActs(n) = <<>>)

\* a step of the callbacks changes dance_state[n] only as the finished
\* callback of dance n (to a step in 1..6) or as its reset callback (to 0),
\* and changes its step field only; an on-each-tap call changes no entry; a
\* reset with no sequence under way changes no entry and no registration
C11_StepFrame ==
    /\ \A n \in Dances :
           /\ dance_state'[n].is_press_action = dance_state[n].is_press_action
           /\ dance_state'[n] # dance_state[n] =>
                  \/ ~td[n].finished /\ td'[n].finished /\ dance_state'[n].step \in 1..6
                  \/ td[n].finished /\ ~td'[n].finished /\ dance_state'[n].step = 0
           /\ (td[n].finished /\ ~td'[n].finished) => dance_state'[n].step = 0
           /\ td'[n].count = td[n].count + 1 => dance_state' = dance_state
    /\ td' = td => (dance_state' = dance_state /\ registered' = registered)

\* C11: dance_N_finished and dance_N_reset write dance_state[N].step and no
\* other entry, on_dance_N writes none; dance_N_reset ends with step 0; every
\* step is in 0..6, is 0 initially and after each reset, and a reset with no
\* finished call since the last reset unregisters nothing.
C11_StepBookkeeping == []C11_StepCleared /\ [][C11_StepFrame]_vars

\* dance 0 has been reset while dance 6 was finished on a single tap (its
\* KC_DELETE was released by dance 0): dance 0 is back at step 0 and the
\* step of dance 6 is as its finished call stored it
C11_Witness ==
    /\ td[DANCE_6].finished
    /\ dance_state[DANCE_6].step = SINGLE_TAP
    /\ held[DANCE_6] = "KC_DELETE"
    /\ "KC_DELETE" \notin registered
    /\ td[DANCE_0] = [count |-> 0, finished |-> FALSE]
    /\ dance_state[DANCE_0].step = 0
    /\ ResetActs(DANCE_0) = <<>>

----------------------------------------------------------------------------
\* Key events and the encoder.  The framework passes each key event to
\* process_record_user with the keycode the keymap has at the key's position
\* in the base layer or in a layer that is on; the DUAL_FUNC_0 key is pressed
\* when it is up and released when it is down.

DancesUnchanged == UNCHANGED <<dance_state, td, held, emitted>>

process_record(layer, row, col) ==
    \E pressed \in BOOLEAN, tap_count \in 0..MaxTapCount :
        LET keycode == keymap_key(layer, row, col)
            r == process_record_user(keycode, pressed, tap_count)
        IN /\ layer = _BASE \/ IS_LAYER_ON(layer)
           /\ keycode = DUAL_FUNC_0 => (pressed <=> ~df.down)
           /\ registered' = ApplyActs(registered, r.acts)
           /\ last' = [cb |-> "process_record_user",
                       args |-> <<keycode, pressed, tap_count, layer, row, col>>,
                       acts |-> r.acts, ret |-> r.ret]
           /\ df' = IF keycode # DUAL_FUNC_0 THEN df
                    ELSE IF pressed
                         THEN [df EXCEPT !.down = TRUE, !.tap = (tap_count > 0)]
                         ELSE [df EXCEPT !.down = FALSE,
                                         !.clean = @ /\ (df.tap <=> (tap_count > 0))]
           /\ UNCHANGED <<layer_state, muse_mode, muse_offset, muse_tempo,
                          MOUSEKEY_ENABLE>>
           /\ DancesUnchanged

encoder_turn(clockwise) ==
    LET r == encoder_update(clockwise)
    IN /\ registered' = ApplyActs(registered, r.acts)
       /\ muse_offset' = r.muse_offset
       /\ muse_tempo' = r.muse_tempo
       /\ last' = [cb |-> "encoder_update", args |-> <<clockwise>>,
                   acts |-> r.acts, ret |-> 0]
       /\ UNCHANGED <<layer_state, df, muse_mode, MOUSEKEY_ENABLE>>
       /\ DancesUnchanged

NextKeys ==
    \/ \E layer \in Layers, row \in 0..(MATRIX_ROWS - 1), col \in 0..(MATRIX_COLS - 1) :
           process_record(layer, row, col)
    \/ \E clockwise \in BOOLEAN : encoder_turn(clockwise)

SpecKeys == Init /\ [][NextKeys]_vars

----------------------------------------------------------------------------
\* Layer changes.  Every change of the layer state goes through
\* layer_state_set_user, whose result becomes the layer state.

layer_state_set(state) ==
    /\ layer_state' = layer_state_set_user(state)
    /\ last' = [cb |-> "layer_state_set_user", args |-> <<state>>,
                acts |-> <<>>, ret |-> layer_state_set_user(state)]
    /\ UNCHANGED <<registered, df, muse_mode, muse_offset, muse_tempo, MOUSEKEY_ENABLE>>
    /\ DancesUnchanged

layer_on(layer) == layer_state_set(BitOr(layer_state, 2^layer))

layer_off(layer) == layer_state_set(BitAnd(layer_state, BitNot(2^layer)))

layer_move(layer) == layer_state_set(2^layer)

NextLayer ==
    \E layer \in 0..(LayerBits - 1) :
        \/ layer_on(layer)
        \/ layer_off(layer)
        \/ layer_move(layer)

SpecLayer == Init /\ [][NextLayer]_vars

----------------------------------------------------------------------------
\* dance_step on its own: the framework state it is given

classify(count, interrupted, pressed) ==
    /\ last' = [cb |-> "dance_step", args |-> <<count, interrupted, pressed>>,
                acts |-> <<>>, ret |-> dance_step(count, interrupted, pressed)]
    /\ UNCHANGED <<registered, layer_state, df, muse_mode, muse_offset, muse_tempo,
                   MOUSEKEY_ENABLE>>
    /\ DancesUnchanged

NextStep ==
    \E count \in 0..MaxStepCount, interrupted \in BOOLEAN, pressed \in BOOLEAN :
        classify(count, interrupted, pressed)

SpecStep == Init /\ [][NextStep]_vars

----------------------------------------------------------------------------
\* Properties of process_record_user and encoder_update (checked under SpecKeys)

IsRecord == last.cb = "process_record_user"

\* C2: for DUAL_FUNC_0 a press registers and a release unregisters KC_BSPC
\* when tap.count > 0 and LCTL(KC_BSPC) when tap.count = 0; after a release
\* that carries the classification of its press the keycode registered on
\* press is not registered, and nothing is registered while the key is up
\* and every release so far has carried the classification of its press.
C2_DualFunction ==
    /\ (IsRecord /\ last.args[1] = DUAL_FUNC_0) =>
           LET pressed == last.args[2]
               kc == IF last.args[3] > 0 THEN "KC_BSPC" ELSE "LCTL(KC_BSPC)"
           IN /\ last.acts = <<IF pressed THEN register_code16(kc)
                               ELSE unregister_code16(kc)>>
              /\ pressed => kc \in registered
              /\ (~pressed /\ (df.tap <=> (last.args[3] > 0))) => kc \notin registered
    /\ (~df.down /\ df.clean) => registered = {}

\* a hold of DUAL_FUNC_0 has just been released, as every press before it
C2_Witness ==
    /\ IsRecord
    /\ last.args[1] = DUAL_FUNC_0
    /\ ~last.args[2]
    /\ last.args[3] = 0
    /\ ~df.tap
    /\ df.clean
    /\ last.acts = <<unregister_code16("LCTL(KC_BSPC)")>>
    /\ registered = {}

\* C4: muse_mode is never true; encoder_update registers and then
\* unregisters the wheel-down keycode when clockwise and the wheel-up
\* keycode otherwise, leaves none of them registered, and leaves muse_offset
\* and muse_tempo as they were.
C4_EncoderScrolls ==
    /\ ~muse_mode
    /\ muse_offset = 70
    /\ muse_tempo = 50
    /\ registered \subseteq {"KC_BSPC", "LCTL(KC_BSPC)"}
    /\ last.cb = "encoder_update" =>
           LET kc == IF last.args[1]
                     THEN (IF MOUSEKEY_ENABLE THEN "KC_MS_WH_DOWN" ELSE "KC_PGDN")
                     ELSE (IF MOUSEKEY_ENABLE THEN "KC_MS_WH_UP" ELSE "KC_PGUP")
           IN last.acts = <<register_code(kc), unregister_code(kc)>>

\* the encoder was turned clockwise in a build with mouse keys
C4_Witness ==
    /\ last.cb = "encoder_update"
    /\ last.args[1]
    /\ MOUSEKEY_ENABLE
    /\ last.acts = <<register_code("KC_MS_WH_DOWN"), unregister_code("KC_MS_WH_DOWN")>>

\* C5: the unlock combination is (0,0) and (4,5) in both configuration
\* headers, both positions are inside the matrix, and the base layer has
\* KC_ESCAPE at the first position and KC_BSPC at the second: a key event at
\* these positions of the base layer carries these keycodes.
C5_UnlockCombo ==
    /\ VIAL_UNLOCK_COMBO_ROWS = <<0, 4>>
    /\ VIAL_UNLOCK_COMBO_COLS = <<0, 5>>
    /\ vial_VIAL_UNLOCK_COMBO_ROWS = VIAL_UNLOCK_COMBO_ROWS
    /\ vial_VIAL_UNLOCK_COMBO_COLS = VIAL_UNLOCK_COMBO_COLS
    /\ \A i \in 1..2 : /\ VIAL_UNLOCK_COMBO_ROWS[i] \in 0..(MATRIX_ROWS - 1)
                       /\ VIAL_UNLOCK_COMBO_COLS[i] \in 0..(MATRIX_COLS - 1)
    /\ (IsRecord /\ last.args[4] = _BASE) =>
           /\ (last.args[5] = VIAL_UNLOCK_COMBO_ROWS[1]
                 /\ last.args[6] = VIAL_UNLOCK_COMBO_COLS[1]) =>
                  last.args[1] = "KC_ESCAPE"
           /\ (last.args[5] = VIAL_UNLOCK_COMBO_ROWS[2]
                 /\ last.args[6] = VIAL_UNLOCK_COMBO_COLS[2]) =>
                  last.args[1] = "KC_BSPC"

\* C10: process_record_user returns false for DUAL_FUNC_0 on every event
\* and true for every other keycode, for which it performs no key action.
C10_InterceptsOneKeycode ==
    IsRecord =>
        /\ (last.args[1] = DUAL_FUNC_0) => (last.ret = FALSE /\ last.acts # <<>>)
        /\ (last.args[1] # DUAL_FUNC_0) => (last.ret = TRUE /\ last.acts = <<>>)

\* the plain KC_D key was pressed while the DUAL_FUNC_0 key is held
C10_Witness ==
    /\ IsRecord
    /\ last.args[1] = "KC_D"
    /\ last.ret = TRUE
    /\ last.acts = <<>>
    /\ df.down
    /\ registered # {}

----------------------------------------------------------------------------
\* Property of layer_state_set_user (checked under SpecLayer)

\* C8: layer_state_set_user returns its input with the _ADJUST bit set
\* exactly when the _LOWER and _RAISE bits of the input are both set and
\* every other bit as in the input; in the layer state _ADJUST is on exactly
\* when _LOWER and _RAISE are both on.
C8_TriLayer ==
    /\ IS_LAYER_ON(_ADJUST) <=> (IS_LAYER_ON(_LOWER) /\ IS_LAYER_ON(_RAISE))
    /\ last.cb = "layer_state_set_user" =>
           LET state == last.args[1]
           IN /\ layer_state = last.ret
              /\ Bit(last.ret, _ADJUST) <=> (Bit(state, _LOWER) /\ Bit(state, _RAISE))
              /\ \A b \in (0..(LayerBits - 1)) \ {_ADJUST} :
                     Bit(last.ret, b) <=> Bit(state, b)

\* raise was switched on while lower was on: adjust came on
C8_Witness ==
    /\ last.cb = "layer_state_set_user"
    /\ last.args[1] = 2^_LOWER + 2^_RAISE
    /\ layer_state = 2^_LOWER + 2^_RAISE + 2^_ADJUST

----------------------------------------------------------------------------
\* Property of dance_step (checked under SpecStep)

\* C6: dance_step returns SINGLE_TAP for count 1 when interrupted or not
\* pressed and SINGLE_HOLD otherwise; for count 2 DOUBLE_SINGLE_TAP when
\* interrupted, DOUBLE_HOLD when pressed and not interrupted, DOUBLE_TAP
\* when neither; MORE_TAPS for every other count; never 0.
C6_DanceStep ==
    last.cb = "dance_step" =>
        LET count == last.args[1]
            interrupted == last.args[2]
            pressed == last.args[3]
        IN /\ last.ret \in 1..6
           /\ (last.ret = SINGLE_TAP) <=> (count = 1 /\ (interrupted \/ ~pressed))
           /\ (last.ret = SINGLE_HOLD) <=> (count = 1 /\ ~interrupted /\ pressed)
           /\ (last.ret = DOUBLE_SINGLE_TAP) <=> (count = 2 /\ interrupted)
           /\ (last.ret = DOUBLE_HOLD) <=> (count = 2 /\ ~interrupted /\ pressed)
           /\ (last.ret = DOUBLE_TAP) <=> (count = 2 /\ ~interrupted /\ ~pressed)
           /\ (last.ret = MORE_TAPS) <=> (count \notin {1, 2})

\* a second tap that is interrupted while the key is still pressed
C6_Witness ==
    /\ last.cb = "dance_step"
    /\ last.args = <<2, TRUE, TRUE>>
    /\ last.ret = DOUBLE_SINGLE_TAP

====
